---- MODULE Spec2Model ----
(***************************************************************************)
(* EpicEXE (src/EpicEXE.py): a ROM feature patcher.  A definitions (.ini)  *)
(* file is parsed into features, each a list of byte patches; a feature's  *)
(* status is read from the ROM and the context menu writes either the      *)
(* modified or the original bytes of every patch of a feature.             *)
(*                                                                         *)
(* Conventions.  A byte is a number in 0..255, a byte string a sequence of *)
(* bytes.  The ROM file is the sequence of its bytes: file offset o is     *)
(* index o + 1.  A text value is the sequence of its whitespace-separated  *)
(* tokens, a token the sequence of its characters.  A dictionary key that  *)
(* may be absent is a sequence of length at most one: <<>> when absent,    *)
(* <<v>> when set to v.                                                    *)
(***************************************************************************)
EXTENDS Integers, Sequences, FiniteSets, TLC

VARIABLES
    rom_path,      \* self.rom_path
    rom,           \* the bytes of the ROM file on disk
    ini_file,      \* the lines of the definitions file on disk
    features,      \* self.features
    feature_list,  \* the items of self.feature_list
    detail_text,   \* the text of self.detail_text
    hist,          \* history: the last two runs of load_ini / show_context_menu
    romBefore      \* history: the ROM file before the latest of those runs

vars == <<rom_path, rom, ini_file, features, feature_list, detail_text, hist, romBefore>>

\* self.rom_path = None
None == "None"

\* The path the file dialog of load_rom returns.
RomPath == "rom.gba"

\* ------------------------------------------------------------------ bounds

\* Longest ROM file at start, in bytes.
MaxRomLen == 1

\* Most triple groups (offset / original / modified lines) in a definitions file.
MaxTriples == 2

\* Most items the list widget holds before the user stops opening the menu.
MaxItems == 3

\* Byte values of the ROM file at start.
RomBytes == {0, 255}

\* ------------------------------------------------------------- hex parsing

\* The digits of f"{b:02X}", in the order of their values.
HexDigits == <<"0", "1", "2", "3", "4", "5", "6", "7",
               "8", "9", "A", "B", "C", "D", "E", "F">>

\* The same digits as int(..., 16) also takes them.
LowerHexDigits == <<"0", "1", "2", "3", "4", "5", "6", "7",
                    "8", "9", "a", "b", "c", "d", "e", "f">>

HexDigitSet == {HexDigits[i] : i \in 1..16} \cup {LowerHexDigits[i] : i \in 1..16}

\* The value of each hexadecimal digit: its place in the list of digits.
HexValues ==
    [c \in HexDigitSet |-> (CHOOSE i \in 1..16 : HexDigits[i] = c \/ LowerHexDigits[i] = c) - 1]

IsHexDigit(c) == c \in HexDigitSet

HexDigitValue(c) == HexValues[c]

RECURSIVE DigitsValue(_)
\* The number a run of hexadecimal digits denotes.
DigitsValue(ds) ==
    IF ds = <<>> THEN 0
    ELSE 16 * DigitsValue(SubSeq(ds, 1, Len(ds) - 1)) + HexDigitValue(ds[Len(ds)])

\* int(tok, 16) of a token without blanks or underscores: an optional sign,
\* an optional 0x prefix, then at least one hexadecimal digit; anything
\* else raises ValueError (ok = FALSE).
IntBase16(tok) ==
    LET signed == tok # <<>> /\ tok[1] \in {"-", "+"}
        neg    == tok # <<>> /\ tok[1] = "-"
        body   == IF signed THEN Tail(tok) ELSE tok
        pref   == Len(body) >= 2 /\ body[1] = "0" /\ body[2] \in {"x", "X"}
        digits == IF pref THEN SubSeq(body, 3, Len(body)) ELSE body
    IN  IF digits # <<>> /\ \A i \in 1..Len(digits) : IsHexDigit(digits[i])
        THEN [ok |-> TRUE,
              val |-> IF neg THEN 0 - DigitsValue(digits) ELSE DigitsValue(digits)]
        ELSE [ok |-> FALSE, val |-> 0]

\* hex_to_bytes: every token through int(b, 16), then bytes(...), which
\* raises ValueError for a value outside 0..255.
hex_to_bytes(hex_str) ==
    LET ints == [i \in 1..Len(hex_str) |-> IntBase16(hex_str[i])]
    IN  IF \A i \in 1..Len(hex_str) : ints[i].ok /\ ints[i].val \in 0..255
        THEN [ok |-> TRUE, val |-> [i \in 1..Len(hex_str) |-> ints[i].val]]
        ELSE [ok |-> FALSE, val |-> <<>>]

\* f"{b:02X}"
FormatByte(b) == <<HexDigits[(b \div 16) + 1], HexDigits[(b % 16) + 1]>>

format_bytes(data) == [i \in 1..Len(data) |-> FormatByte(data[i])]

\* --------------------------------------------------------------- ROM file

Min(a, b) == IF a < b THEN a ELSE b

Zeros(n) == [i \in 1..n |-> 0]

\* read_rom_bytes: seek raises OSError on a negative offset (ok = FALSE);
\* read returns the bytes there are, fewer than length at the end of file.
read_rom_bytes(file, offset, length) ==
    IF offset < 0 THEN [ok |-> FALSE, data |-> <<>>]
    ELSE [ok |-> TRUE, data |-> SubSeq(file, offset + 1, Min(offset + length, Len(file)))]

\* A mutant of write_rom_bytes: the file opened for appending, where every
\* write lands at the end of the file whatever the seek.
write_rom_bytes_append(file, offset, data) ==
    IF offset < 0 THEN [ok |-> FALSE, file |-> file]
    ELSE [ok |-> TRUE, file |-> file \o data]

\* A mutant of write_rom_bytes: the seek is off by one byte.
write_rom_bytes_shifted(file, offset, data) ==
    IF offset < 0 THEN [ok |-> FALSE, file |-> file]
    ELSE IF data = <<>> THEN [ok |-> TRUE, file |-> file]
    ELSE LET padded == file \o Zeros(offset + 1 - Len(file))
         IN  [ok |-> TRUE,
              file |-> SubSeq(padded, 1, offset + 1) \o data
                       \o SubSeq(padded, offset + Len(data) + 2, Len(padded))]

\* write_rom_bytes: seek raises OSError on a negative offset and the file is
\* left as it was; a write past the end of the file extends it, the gap up
\* to offset filled with zero bytes; a write of no bytes changes nothing.
write_rom_bytes(file, offset, data) ==
    IF offset < 0 THEN [ok |-> FALSE, file |-> file]
    ELSE IF data = <<>> THEN [ok |-> TRUE, file |-> file]
    ELSE LET padded == file \o Zeros(offset - Len(file))
         IN  [ok |-> TRUE,
              file |-> SubSeq(padded, 1, offset) \o data
                       \o SubSeq(padded, offset + Len(data) + 1, Len(padded))]

\* ------------------------------------------------------- definitions file

(* A line of the definitions file, as load_ini sees it after stripping and   *)
(* dropping blank and # lines: a section header [title], or key = value with *)
(* the key stripped and lowercased and the value its tokens.  A line that is *)
(* neither is skipped by the loop.                                           *)
SectionLine(title) == [kind |-> "section", title |-> title]

KeyLine(key, val) == [kind |-> "kv", key |-> key, val |-> val]

\* current_feature = {"patches": []}: no name, no pending offset/original/modified.
EmptyFeature ==
    [name |-> <<>>, description |-> <<>>, patches |-> <<>>,
     offset |-> <<>>, original |-> <<>>, modified |-> <<>>]

\* f"Feature {section_title}", as tokens.
FeatureName(title) == << <<"F", "e", "a", "t", "u", "r", "e">>, title >>

\* {"name": f"Feature {section_title}", "description": "", "patches": []}
NewFeature(title) ==
    [name |-> <<FeatureName(title)>>, description |-> << <<>> >>, patches |-> <<>>,
     offset |-> <<>>, original |-> <<>>, modified |-> <<>>]

\* What self.features keeps of current_feature and the program reads again.
FeatureOf(cf) == [name |-> cf.name, description |-> cf.description, patches |-> cf.patches]

\* The patch the three pops build.
PendingPatch(cf) ==
    [offset |-> cf.offset[1], original |-> cf.original[1], modified |-> cf.modified[1]]

\* A section header: the feature so far is kept if it has patches (and its
\* list item added, which raises KeyError for a feature with no name); the
\* pending offset/original/modified are dropped with the old dictionary.
SectionStep(cf, feats, title) ==
    [cf |-> NewFeature(title),
     features |-> IF cf.patches # <<>> THEN Append(feats, FeatureOf(cf)) ELSE feats,
     raised |-> cf.patches # <<>> /\ cf.name = <<>>]

\* key == "offset": a pending offset closes the triple off (KeyError from
\* pop when original or modified is missing), then int(val, 16).
OffsetStep(cf, feats, val) ==
    LET closes == cf.offset # <<>>
        keyerr == closes /\ (cf.original = <<>> \/ cf.modified = <<>>)
        closed == IF closes /\ ~keyerr
                  THEN [cf EXCEPT !.patches = Append(@, PendingPatch(cf)),
                                  !.offset = <<>>, !.original = <<>>, !.modified = <<>>]
                  ELSE cf
        n      == IF Len(val) = 1 THEN IntBase16(val[1]) ELSE [ok |-> FALSE, val |-> 0]
    IN  [cf |-> IF n.ok THEN [closed EXCEPT !.offset = <<n.val>>] ELSE closed,
         features |-> feats,
         raised |-> keyerr \/ ~n.ok]

\* key == "original" / "modified": hex_to_bytes(val).
BytesStep(cf, feats, key, val) ==
    LET b == hex_to_bytes(val)
    IN  [cf |-> IF ~b.ok THEN cf
                ELSE IF key = "original" THEN [cf EXCEPT !.original = <<b.val>>]
                ELSE [cf EXCEPT !.modified = <<b.val>>],
         features |-> feats,
         raised |-> ~b.ok]

\* One iteration of the loop over the lines.
LineStep(cf, feats, line) ==
    IF line.kind = "section" THEN SectionStep(cf, feats, line.title)
    ELSE IF line.kind # "kv" THEN [cf |-> cf, features |-> feats, raised |-> FALSE]
    ELSE IF line.key = "name"
         THEN [cf |-> [cf EXCEPT !.name = <<line.val>>], features |-> feats, raised |-> FALSE]
    ELSE IF line.key \in {"description", "hackdescription"}
         THEN [cf |-> [cf EXCEPT !.description = <<line.val>>], features |-> feats,
               raised |-> FALSE]
    ELSE IF line.key = "offset" THEN OffsetStep(cf, feats, line.val)
    ELSE IF line.key \in {"original", "modified"}
         THEN BytesStep(cf, feats, line.key, line.val)
    ELSE [cf |-> cf, features |-> feats, raised |-> FALSE]

\* After the loop: a complete pending triple becomes a patch and the feature
\* is kept if it has patches.
FinishParse(cf, feats) ==
    LET patches == IF cf.offset # <<>> /\ cf.original # <<>> /\ cf.modified # <<>>
                   THEN Append(cf.patches, PendingPatch(cf)) ELSE cf.patches
    IN  [features |-> IF patches # <<>>
                      THEN Append(feats, [FeatureOf(cf) EXCEPT !.patches = patches])
                      ELSE feats,
         raised |-> patches # <<>> /\ cf.name = <<>>]

RECURSIVE ParseFrom(_, _, _, _)
\* The loop of load_ini from line i on.  An exception leaves self.features
\* with the features appended so far.
ParseFrom(lines, i, cf, feats) ==
    IF i > Len(lines) THEN FinishParse(cf, feats)
    ELSE LET s == LineStep(cf, feats, lines[i])
         IN  IF s.raised THEN [features |-> s.features, raised |-> TRUE]
             ELSE ParseFrom(lines, i + 1, s.cf, s.features)

\* self.features after load_ini read these lines, and whether it raised.
ParseIni(lines) == ParseFrom(lines, 1, EmptyFeature, <<>>)

\* ------------------------------------------------------------ patch engine

(* The status strings of add_feature_item: "mod" is the check mark "mod",   *)
(* "og" the arrows "og", "unk" the warning sign "unk" and "err" the cross.  *)
Statuses == {"mod", "og", "unk", "err"}

\* A mutant of PatchStatus: the original bytes compared first.
PatchStatusOriginalFirst(file, patch) ==
    LET current == read_rom_bytes(file, patch.offset, Len(patch.modified))
    IN  IF ~current.ok THEN "err"
        ELSE IF current.data = patch.original THEN "og"
        ELSE IF current.data = patch.modified THEN "mod"
        ELSE "unk"

\* The try block of add_feature_item for one patch.
PatchStatus(file, patch) ==
    LET current == read_rom_bytes(file, patch.offset, Len(patch.modified))
    IN  IF ~current.ok THEN "err"
        ELSE IF current.data = patch.modified THEN "mod"
        ELSE IF current.data = patch.original THEN "og"
        ELSE "unk"

\* statuses, the list add_feature_item builds.
PatchStatuses(file, feature) ==
    [i \in 1..Len(feature.patches) |-> PatchStatus(file, feature.patches[i])]

\* statuses.count(s)
Count(statuses, s) == Cardinality({i \in 1..Len(statuses) : statuses[i] = s})

\* max(set(statuses), key=statuses.count): max keeps the first greatest
\* element in the iteration order of the set, which for a set of str is
\* fixed by the string hashes of the process and not by the order of the
\* list, so any status of greatest count can come out.
MaxByCount(statuses) ==
    {s \in Statuses : /\ Count(statuses, s) > 0
                      /\ \A t \in Statuses : Count(statuses, t) <= Count(statuses, s)}

\* The items add_feature_item(index) can add: the index it stores with the
\* item and the status in its text.
add_feature_item(file, feats, index) ==
    {[index |-> index, status |-> st] : st \in MaxByCount(PatchStatuses(file, feats[index + 1]))}

RECURSIVE ItemLists(_, _, _)
\* The item lists load_ini can build for the first n features: one
\* add_feature_item call after each append, none for a feature without name.
ItemLists(file, feats, n) ==
    IF n = 0 THEN {<<>>}
    ELSE IF feats[n].name = <<>> THEN ItemLists(file, feats, n - 1)
    ELSE {Append(l, it) : l \in ItemLists(file, feats, n - 1),
                          it \in add_feature_item(file, feats, n - 1)}

\* One block of the text update_bottom_panel builds for a patch.
PatchText(file, patch) ==
    LET current == read_rom_bytes(file, patch.offset, Len(patch.modified))
    IN  IF ~current.ok
        THEN [error |-> TRUE, offset |-> patch.offset,
              original |-> <<>>, modified |-> <<>>, executable |-> <<>>]
        ELSE [error |-> FALSE,
              offset |-> patch.offset,
              original |-> format_bytes(patch.original),
              modified |-> format_bytes(patch.modified),
              executable |-> format_bytes(current.data)]

\* update_bottom_panel(index): the text it sets, or the text as it was for
\* an index past the end of self.features.
update_bottom_panel(file, feats, index, text) ==
    IF index >= Len(feats) THEN text
    ELSE [name |-> feats[index + 1].name,
          description |-> feats[index + 1].description,
          patches |-> [i \in 1..Len(feats[index + 1].patches) |->
                          PatchText(file, feats[index + 1].patches[i])]]

RECURSIVE WriteAll(_, _, _, _)
\* The for loop of show_context_menu from patch i on: write_rom_bytes for
\* each patch in order; the first write that raises ends the loop.  written
\* is the number of patches whose write was completed.
WriteAll(file, patches, target, i) ==
    IF i > Len(patches) THEN [file |-> file, raised |-> FALSE, written |-> i - 1]
    ELSE LET w == write_rom_bytes(file, patches[i].offset,
                                  IF target = "modified" THEN patches[i].modified
                                  ELSE patches[i].original)
         IN  IF ~w.ok THEN [file |-> file, raised |-> TRUE, written |-> i - 1]
             ELSE WriteAll(w.file, patches, target, i + 1)

\* ------------------------------------------------------------------ inputs

\* The ROM files at start: every byte string over RomBytes up to MaxRomLen.
InitialRoms == UNION {[1..n -> RomBytes] : n \in 0..MaxRomLen}

\* A triple group of a definitions file: the value of its offset, original
\* and modified lines, <<>> for a line that is not there.
Triple(offset, original, modified) ==
    [offset |-> offset, original |-> original, modified |-> modified]

T00 == <<"0", "0">>

TFF == <<"F", "F">>

TBad == <<"G", "G">>

\* Triple groups load_ini parses without raising: a patch of one byte at
\* offset 0; its reverse, at the same offset; one at the same offset whose
\* original and modified bytes are equal; one at a negative offset; and one
\* at offset 1 whose modified bytes are longer than its original bytes.
WellFormedTriples ==
    { Triple(<< <<<<"0">>>> >>,      << <<T00>> >>, << <<TFF>> >>),
      Triple(<< <<<<"0">>>> >>,      << <<TFF>> >>, << <<T00>> >>),
      Triple(<< <<<<"0">>>> >>,      << <<TFF>> >>, << <<TFF>> >>),
      Triple(<< <<<<"-", "1">>>> >>, << <<T00>> >>, << <<TFF>> >>),
      Triple(<< <<<<"1">>>> >>,      << <<T00>> >>, << <<TFF, T00>> >>) }

\* Triple groups with a token that is no hexadecimal number, or without
\* their original line.
MalformedTriples ==
    { Triple(<< <<<<"0">>>> >>, << <<TBad>> >>, << <<TFF>> >>),
      Triple(<< <<<<"0">>>> >>, <<>>,           << <<TFF>> >>) }

\* [n], the header of the n-th group of a file.
SectionTitle(n) == <<HexDigits[n + 1]>>

\* The lines of one group: its header, if it opens a section, then its
\* offset, original and modified lines.
GroupLines(g, n) ==
    (IF g.header THEN <<SectionLine(SectionTitle(n))>> ELSE <<>>)
    \o (IF g.triple.offset # <<>> THEN <<KeyLine("offset", g.triple.offset[1])>> ELSE <<>>)
    \o (IF g.triple.original # <<>> THEN <<KeyLine("original", g.triple.original[1])>> ELSE <<>>)
    \o (IF g.triple.modified # <<>> THEN <<KeyLine("modified", g.triple.modified[1])>> ELSE <<>>)

RECURSIVE FileLines(_, _)
\* The lines of the first n groups of a file.
FileLines(groups, n) ==
    IF n = 0 THEN <<>> ELSE FileLines(groups, n - 1) \o GroupLines(groups[n], n)

\* The definitions files over a set of triple groups: 1..MaxTriples groups,
\* the first opening a section, each later one opening a section or not.
FilesOver(triples) ==
    UNION {{FileLines(gs, n) :
               gs \in {f \in [1..n -> [header : BOOLEAN, triple : triples]] : f[1].header}}
           : n \in 1..MaxTriples}

\* The definitions files of the runs with the menu, which all parse, and
\* those of the runs of the loads alone.
WellFormedFiles == FilesOver(WellFormedTriples)

IniFiles == FilesOver(WellFormedTriples \cup MalformedTriples)

\* ----------------------------------------------------------------- actions

\* detail_text of the empty QPlainTextEdit.
EmptyText == [name |-> <<>>, description |-> <<>>, patches |-> <<>>]

\* The record hist keeps of one handler run: the handler, the feature index
\* and menu entry of show_context_menu, whether an exception left the
\* handler, how many patches it wrote, and whether it ran to its last lines
\* (for show_context_menu the refresh of the list item and the panel).
Ran(op, index, target, raised, written) ==
    [op |-> op, index |-> index, target |-> target, raised |-> raised, written |-> written,
     refreshed |-> ~raised]

\* hist: the last two runs of load_ini and show_context_menu, oldest first.
Remember(h, r) == IF Len(h) < 2 THEN Append(h, r) ELSE <<h[2], r>>

\* PatchTool.__init__, with the two files as they are on disk: rom the
\* bytes of the ROM file, ini_file the lines of the definitions file.
Constructed ==
    /\ rom_path = None
    /\ rom \in InitialRoms
    /\ features = <<>>
    /\ feature_list = <<>>
    /\ detail_text = EmptyText
    /\ hist = <<>>
    /\ romBefore = rom

Init == Constructed /\ ini_file \in WellFormedFiles

InitParser == Constructed /\ ini_file \in IniFiles

\* load_rom with a file chosen in the dialog.
load_rom ==
    /\ rom_path' = RomPath
    /\ UNCHANGED <<hist, romBefore>>
    /\ UNCHANGED <<rom, ini_file, features, feature_list, detail_text>>

\* load_ini with a ROM loaded and the definitions file chosen.
load_ini ==
    /\ rom_path # None
    /\ \E p \in {ParseIni(ini_file)} :
           /\ features' = p.features
           /\ feature_list' \in ItemLists(rom, p.features, Len(p.features))
           /\ hist' = Remember(hist, Ran("load_ini", 0, "", p.raised, 0))
    /\ romBefore' = rom
    /\ UNCHANGED <<rom_path, rom, ini_file, detail_text>>

\* The feature indexes the items of the list carry (item.data(Qt.UserRole)).
ItemIndexes == {feature_list[k].index : k \in 1..Len(feature_list)}

\* update_bottom_panel_from_list: a click on an item that carries this index.
update_bottom_panel_from_list(index) ==
    /\ detail_text' = update_bottom_panel(rom, features, index, detail_text)
    /\ UNCHANGED <<hist, romBefore>>
    /\ UNCHANGED <<rom_path, rom, ini_file, features, feature_list>>

\* show_context_menu on an item that carries this index, with the menu
\* entry chosen: "modified" (Set All Modified), "original" (Set All
\* Original) or "" (the menu dismissed, after which the refresh still runs).
show_context_menu(index, action) ==
    /\ Len(feature_list) < MaxItems
    /\ \E w \in {IF action = "" THEN [file |-> rom, raised |-> FALSE, written |-> 0]
                 ELSE WriteAll(rom, features[index + 1].patches, action, 1)} :
           /\ rom' = w.file
           /\ hist' = Remember(hist, Ran("menu", index, action, w.raised, w.written))
           /\ IF w.raised
              THEN UNCHANGED <<feature_list, detail_text>>
              ELSE /\ \E it \in add_feature_item(w.file, features, index) :
                          feature_list' = Append(feature_list, it)
                   /\ detail_text' = update_bottom_panel(w.file, features, index, detail_text)
    /\ romBefore' = rom
    /\ UNCHANGED <<rom_path, ini_file, features>>

Next ==
    \/ load_rom
    \/ load_ini
    \/ \E index \in ItemIndexes : update_bottom_panel_from_list(index)
    \/ \E index \in ItemIndexes, action \in {"modified", "original", ""} :
           show_context_menu(index, action)

Spec == Init /\ [][Next]_vars

\* The loads alone, over every definitions file.
NextParser ==
    \/ load_rom
    \/ load_ini

SpecParser == InitParser /\ [][NextParser]_vars

\* ------------------------------------------------------ stating the claims

\* The latest run hist holds.
Last == hist[Len(hist)]

\* The ROM holds exactly these bytes from this offset on.
HoldsAt(offset, data) ==
    /\ offset >= 0
    /\ offset + Len(data) <= Len(rom)
    /\ \A i \in 1..Len(data) : rom[offset + i] = data[i]

\* Two byte ranges, each an offset and a length, share a byte.
Overlap(o1, n1, o2, n2) == \E b \in o1..(o1 + n1 - 1) : b \in o2..(o2 + n2 - 1)

\* The last two runs were show_context_menu on the same feature, first with
\* this menu entry and then with that one.
TwoApplies(first, second) ==
    /\ Len(hist) = 2
    /\ hist[1].op = "menu" /\ hist[1].target = first
    /\ hist[2].op = "menu" /\ hist[2].target = second
    /\ hist[1].index = hist[2].index

\* The patches of the feature of the latest show_context_menu run.
LastPatches == features[Last.index + 1].patches

\* No patch written after the j-th overlaps the original bytes of the j-th.
OriginalKept(patches, j, written) ==
    \A k \in (j + 1)..written :
        ~Overlap(patches[j].offset, Len(patches[j].original),
                 patches[k].offset, Len(patches[k].original))

\* No patch written after the j-th overlaps the modified bytes of the j-th.
ModifiedKept(patches, j, written) ==
    \A k \in (j + 1)..written :
        ~Overlap(patches[j].offset, Len(patches[j].modified),
                 patches[k].offset, Len(patches[k].modified))

(* C1 as claimed: after Set All Modified and then Set All Original on a      *)
(* feature, both run to their end, the ROM holds at every patch offset of    *)
(* the feature that patch's original bytes, overlapping patches included.    *)
C1_RoundTripAllPatches ==
    (TwoApplies("modified", "original") /\ ~hist[1].raised /\ ~hist[2].raised)
    => \A j \in 1..Len(LastPatches) : HoldsAt(LastPatches[j].offset, LastPatches[j].original)

(* C1 as amended: after Set All Modified and then Set All Original on a      *)
(* feature, the ROM holds the original bytes of every patch the second run   *)
(* wrote (every patch, unless a write raised) whose original byte range no   *)
(* patch written after it overlaps.                                          *)
C1_RoundTrip ==
    TwoApplies("modified", "original")
    => \A j \in 1..Last.written :
           OriginalKept(LastPatches, j, Last.written)
           => HoldsAt(LastPatches[j].offset, LastPatches[j].original)

\* C1's case: the round trip done on a feature of two patches that do not
\* overlap, and the ROM holding the original bytes of both.
C1_Witness ==
    /\ TwoApplies("modified", "original")
    /\ Len(LastPatches) = 2 /\ Last.written = 2
    /\ OriginalKept(LastPatches, 1, 2)
    /\ \A j \in 1..2 : HoldsAt(LastPatches[j].offset, LastPatches[j].original)

(* C2: the ROM after a second Set All Modified on a feature, right after a    *)
(* first one, is the ROM as the first one left it, byte for byte and in      *)
(* length.                                                                   *)
C2_ApplyIdempotent ==
    TwoApplies("modified", "modified") => rom = romBefore

\* C2's case: Set All Modified twice on a feature of two patches, both
\* written each time, the file longer than any ROM at start.
C2_Witness ==
    /\ TwoApplies("modified", "modified")
    /\ Last.written = 2
    /\ Len(rom) > MaxRomLen
    /\ rom = romBefore

\* The items whose status was computed from the ROM as it is now: all of
\* them after load_ini, the last one after show_context_menu ran to its end.
FreshItems ==
    IF hist = <<>> THEN {}
    ELSE IF Last.op = "load_ini" THEN 1..Len(feature_list)
    ELSE IF Last.refreshed THEN {Len(feature_list)}
    ELSE {}

\* The latest run was Set All Modified and ran to its end.
AppliedModified ==
    /\ hist # <<>>
    /\ Last.op = "menu" /\ Last.target = "modified" /\ ~Last.raised

(* C3 as claimed: right after Set All Modified ran to its end the ROM holds  *)
(* at every patch offset of the feature that patch's modified bytes and the  *)
(* status computed is "mod"; and a feature whose patches all hold their      *)
(* original bytes gets the status "og".                                      *)
C3_ApplyThenStatusAllPatches ==
    /\ AppliedModified
       => /\ \A j \in 1..Len(LastPatches) :
                 HoldsAt(LastPatches[j].offset, LastPatches[j].modified)
          /\ feature_list[Len(feature_list)].status = "mod"
    /\ \A k \in FreshItems :
           (\A j \in 1..Len(features[feature_list[k].index + 1].patches) :
                HoldsAt(features[feature_list[k].index + 1].patches[j].offset,
                        features[feature_list[k].index + 1].patches[j].original))
           => feature_list[k].status = "og"

\* The bytes the status of this patch is read from are its original bytes.
ReadsOriginal(patch) ==
    /\ patch.offset >= 0
    /\ SubSeq(rom, patch.offset + 1,
              Min(patch.offset + Len(patch.modified), Len(rom))) = patch.original

(* C3 as amended: right after Set All Modified ran to its end the ROM holds  *)
(* the modified bytes of every patch whose modified byte range no later      *)
(* patch of the feature overlaps, and if that is every patch the status      *)
(* computed is "mod"; and a feature gets the status "og" if, for each of its *)
(* patches, the bytes read at its offset are its original bytes and differ   *)
(* from its modified bytes.                                                  *)
C3_ApplyThenStatus ==
    /\ AppliedModified
       => /\ \A j \in 1..Len(LastPatches) :
                 ModifiedKept(LastPatches, j, Len(LastPatches))
                 => HoldsAt(LastPatches[j].offset, LastPatches[j].modified)
          /\ (\A j \in 1..Len(LastPatches) : ModifiedKept(LastPatches, j, Len(LastPatches)))
             => feature_list[Len(feature_list)].status = "mod"
    /\ \A k \in FreshItems :
           (\A j \in 1..Len(features[feature_list[k].index + 1].patches) :
                /\ ReadsOriginal(features[feature_list[k].index + 1].patches[j])
                /\ features[feature_list[k].index + 1].patches[j].original
                   # features[feature_list[k].index + 1].patches[j].modified)
           => feature_list[k].status = "og"

\* C3's case: Set All Modified ran to its end on a feature of two patches
\* that do not overlap, whose status before it was "og" and is now "mod".
C3_Witness ==
    /\ AppliedModified
    /\ Len(LastPatches) = 2
    /\ ModifiedKept(LastPatches, 1, 2)
    /\ \A j \in 1..2 : HoldsAt(LastPatches[j].offset, LastPatches[j].modified)
    /\ Len(feature_list) >= 2
    /\ feature_list[Len(feature_list) - 1].status = "og"
    /\ feature_list[Len(feature_list)].status = "mod"

(* C4: a patch whose offset plus length is past the end of the ROM file      *)
(* fails to read and gets the status "err", never "unk", "og" or "mod".      *)
C4_TruncatedReadIsError ==
    \A i \in 1..Len(features) : \A j \in 1..Len(features[i].patches) :
        LET patch == features[i].patches[j]
        IN  patch.offset + Len(patch.modified) > Len(rom)
            => /\ ~read_rom_bytes(rom, patch.offset, Len(patch.modified)).ok
               /\ PatchStatuses(rom, features[i])[j] = "err"

\* The status of greatest count that comes first in the list.
StablePlurality(statuses) ==
    statuses[CHOOSE j \in 1..Len(statuses) :
                 /\ \A t \in Statuses : Count(statuses, t) <= Count(statuses, statuses[j])
                 /\ \A h \in 1..(j - 1) :
                        Count(statuses, statuses[h]) < Count(statuses, statuses[j])]

(* C5: the status of a feature is the patch status of greatest count, and    *)
(* among several of greatest count the one that comes first in patch order:  *)
(* "mod" for [mod, og], "og" for [og, mod].                                  *)
C5_StablePlurality ==
    \A k \in FreshItems :
        feature_list[k].status
            = StablePlurality(PatchStatuses(rom, features[feature_list[k].index + 1]))

\* The header lines of the file, and the last line of the section a header opens.
SectionStarts(lines) == {i \in 1..Len(lines) : lines[i].kind = "section"}

SectionEnd(lines, i) ==
    IF \E n \in SectionStarts(lines) : n > i
    THEN (CHOOSE n \in SectionStarts(lines) :
              n > i /\ \A m \in SectionStarts(lines) : m > i => n <= m) - 1
    ELSE Len(lines)

\* The lines with this key in the section header i opens.
KeyLines(lines, i, key) ==
    {j \in (i + 1)..SectionEnd(lines, i) : lines[j].kind = "kv" /\ lines[j].key = key}

\* The last line of the triple the offset line j of section i begins.
TripleEnd(lines, i, j) ==
    IF \E n \in KeyLines(lines, i, "offset") : n > j
    THEN (CHOOSE n \in KeyLines(lines, i, "offset") :
              n > j /\ \A m \in KeyLines(lines, i, "offset") : m > j => n <= m) - 1
    ELSE SectionEnd(lines, i)

\* The offset lines of section i whose triple has original and modified lines.
CompleteTriples(lines, i) ==
    {j \in KeyLines(lines, i, "offset") :
        /\ \E n \in KeyLines(lines, i, "original") : n > j /\ n <= TripleEnd(lines, i, j)
        /\ \E n \in KeyLines(lines, i, "modified") : n > j /\ n <= TripleEnd(lines, i, j)}

\* The value of line j is not what its key takes.
BadValue(lines, j) ==
    /\ lines[j].kind = "kv"
    /\ \/ lines[j].key = "offset"
          /\ ~(Len(lines[j].val) = 1 /\ IntBase16(lines[j].val[1]).ok)
       \/ lines[j].key \in {"original", "modified"} /\ ~hex_to_bytes(lines[j].val).ok

\* Section i has a value that does not parse or a triple short of a key.
Malformed(lines, i) ==
    \/ \E j \in (i + 1)..SectionEnd(lines, i) : BadValue(lines, j)
    \/ CompleteTriples(lines, i) # KeyLines(lines, i, "offset")
    \/ KeyLines(lines, i, "offset") = {}

\* The latest run was load_ini.
Loaded == hist # <<>> /\ Last.op = "load_ini"

(* C6: load_ini of a file with one malformed section and a well-formed one   *)
(* does not abort and loads every well-formed section, before and after the  *)
(* malformed one, as a feature.                                              *)
C6_ParseRecovery ==
    (/\ Loaded
     /\ Cardinality({i \in SectionStarts(ini_file) : Malformed(ini_file, i)}) = 1
     /\ \E i \in SectionStarts(ini_file) : ~Malformed(ini_file, i))
    => /\ ~Last.raised
       /\ \A i \in SectionStarts(ini_file) :
              ~Malformed(ini_file, i)
              => \E f \in 1..Len(features) :
                     features[f].name = <<FeatureName(ini_file[i].title)>>

(* C7: after any load every patch of every feature has original and modified *)
(* bytes of one length.                                                      *)
C7_PatchLengths ==
    \A i \in 1..Len(features) : \A j \in 1..Len(features[i].patches) :
        Len(features[i].patches[j].original) = Len(features[i].patches[j].modified)

RECURSIVE ExpectedFeatures(_, _)
\* From line i on: name and number of patches of the feature of each
\* section with a complete triple, in the order of the sections.
ExpectedFeatures(lines, i) ==
    IF i > Len(lines) THEN <<>>
    ELSE IF lines[i].kind = "section" /\ CompleteTriples(lines, i) # {}
    THEN <<[name |-> <<FeatureName(lines[i].title)>>,
            count |-> Cardinality(CompleteTriples(lines, i))]>>
         \o ExpectedFeatures(lines, i + 1)
    ELSE ExpectedFeatures(lines, i + 1)

(* C8: after a load that did not raise, the features are those of the        *)
(* sections with a complete triple, in the order of the sections, each with  *)
(* one patch for every complete triple of its section.                       *)
C8_NoPatchLost ==
    (Loaded /\ ~Last.raised)
    => [f \in 1..Len(features) |->
           [name |-> features[f].name, count |-> Len(features[f].patches)]]
       = ExpectedFeatures(ini_file, 1)

\* The bytes show_context_menu writes for a patch under a menu entry.
TargetBytes(patch, target) == IF target = "modified" THEN patch.modified ELSE patch.original

(* C9: when a write raises during Set All Modified / Set All Original, the   *)
(* patches written before it stay written, each patch after it is written    *)
(* as well (unless its own write raises), and the status is refreshed.       *)
C9_ApplyErrorsPerPatch ==
    (hist # <<>> /\ Last.op = "menu" /\ Last.target # "" /\ Last.raised)
    => /\ \A j \in 1..Len(LastPatches) :
              (/\ LastPatches[j].offset >= 0
               /\ \A k \in (j + 1)..Len(LastPatches) :
                      LastPatches[k].offset >= 0
                      => ~Overlap(LastPatches[j].offset,
                                  Len(TargetBytes(LastPatches[j], Last.target)),
                                  LastPatches[k].offset,
                                  Len(TargetBytes(LastPatches[k], Last.target))))
              => HoldsAt(LastPatches[j].offset, TargetBytes(LastPatches[j], Last.target))
       /\ Last.refreshed

(* C10: Set All Modified / Set All Original never changes the length of the  *)
(* ROM file, and leaves every byte outside the ranges of the patches it      *)
(* wrote as it was.                                                          *)
C10_WritesInsideFile ==
    (hist # <<>> /\ Last.op = "menu")
    => /\ Len(rom) = Len(romBefore)
       /\ \A b \in 1..Min(Len(rom), Len(romBefore)) :
              (\A j \in 1..Last.written :
                   ~Overlap(b - 1, 1, LastPatches[j].offset,
                            Len(TargetBytes(LastPatches[j], Last.target))))
              => rom[b] = romBefore[b]

====
